---- MODULE Spec2Model ----
(***************************************************************************)
(* Model of src/script.js: the ordered list of PDF entries (filesData),    *)
(* its handlers (handleFiles/addFile, removeFile, clearAllFiles, the       *)
(* dragstart and drop listeners of the rendered items) and the             *)
(* asynchronous merge (mergePDFs).  Every async function is cut at its     *)
(* awaits: one action per resumption.                                      *)
(*                                                                         *)
(* Array indices are 0-based as in the source (data-index, srcIndex,       *)
(* targetIndex); the element at index i of an array a is a[i + 1].         *)
(* Presentation-only fields that no handler reads back (the statistics     *)
(* spans, the visibility of clearBtn and of successMessage, the CSS        *)
(* classes) are left out.                                                  *)
(***************************************************************************)
EXTENDS Integers, Sequences, FiniteSets, TLC

\* ------------------------------------------------------------------ bounds
\* The list alone (SpecList): the number of distinct strings
\* Math.random().toString(36).substr(2, 9) yields within one millisecond,
NumRandom == 3
\* the largest number of entries of filesData, pushes in flight included,
MaxLen == 3
\* the longest FileList handed to handleFiles,
MaxBatch == 2
\* and the number of handleFiles calls in flight together.
MaxBatches == 2
\* The whole program (Spec): the same four,
MergeRandom == 2
MergeMaxLen == 2
MergeMaxBatch == 1
MergeBatches == 1
\* and the number of mergePDFs calls in flight together.
MaxMerges == 1

\* ------------------------------------------------------------------ values
\* The File objects a user can hand over, with what the external services do
\* with them: FileType is file.type, Decodes whether arrayBuffer() and
\* getDocument succeed, Pages the pages pdf-lib copies out of the document.
Files == {"a.pdf", "b.pdf", "bad.pdf", "notes.txt"}

FileType(f) == IF f = "notes.txt" THEN "text/plain" ELSE "application/pdf"

Decodes(f) == f \in {"a.pdf", "b.pdf"}

Pages(f) ==
    IF f = "a.pdf" THEN <<"a1", "a2">>
    ELSE IF f = "b.pdf" THEN <<"b1", "b2", "b3">>
    ELSE <<>>

\* The strings  Date.now() + Math.random().toString(36).substr(2, 9)  can
\* produce while Date.now() stays at one value now: <<now, random part>>.
\* Nothing in addFile compares a new id with the ids already present.
Now == 1

Ids == {<<Now, r>> : r \in 1..NumRandom}

MergeIds == {<<Now, r>> : r \in 1..MergeRandom}

\* The JavaScript value undefined, as an element of filesData (what
\* filesData[i] yields for an index outside the array).
Undefined == [id |-> <<0, 0>>, file |-> "undefined"]

Entry(id, file) == [id |-> id, file |-> file]

\* The FileLists of at most n File objects.
FileListsUpTo(n) == UNION {[1..k -> Files] : k \in 0..n}

\* Alert texts, as <<text, detail>>.
NoAlert == <<"none", "">>
MAX_FILES_MSG == <<"Only PDF files are accepted.", "">>
LoadFailedMsg(f) == <<"Failed to load", f>>
MergeFailedMsg(cause) == <<"An error occurred while merging PDFs", cause>>

\* The label of mergeBtn in the page, and the one mergePDFs sets.
HtmlLabel == "Merge PDFs"
MergingLabel == "Merging..."

\* ------------------------------------------------------------------ state
VARIABLES
    filesData,      \* the array of entries (script.js:14)
    rendered,       \* data-id of the .file-item elements of fileListElement, in order
    dragSrcEl,      \* the element remembered by dragstart (script.js:197)
    mergeBtn,       \* [disabled, innerText] of the merge button
    batches,        \* the handleFiles calls in flight, one record per slot
    merges,         \* the mergePDFs calls in flight, one record per slot
    lastOp,         \* the handler or resumption that ran last
    alert,          \* what that step showed with alert(), NoAlert when nothing
    ended,          \* the mergePDFs call that step brought to its end, if any
    history         \* what is recorded of the past of each handleFiles call

vars == <<filesData, rendered, dragSrcEl, mergeBtn, batches, merges,
          lastOp, alert, ended, history>>

BatchSlots == 1..MaxBatches
MergeSlots == 1..MaxMerges

\* dragSrcEl: null, or an item with its data-index, attached to the list or not.
NoElement == [index |-> -1, attached |-> FALSE]

IdleBatch == [pc |-> "idle", newFiles |-> <<>>, id |-> <<0, 0>>]

\* The past of a handleFiles call in flight, where a specification records
\* it: whether clearAllFiles ran since the addFile in flight was called
\* (cleared), and the entries the call has pushed since filesData was last
\* removed from, reordered or cleared (pushed).
NoHistory == [cleared |-> FALSE, pushed |-> <<>>]

\* A mergePDFs call: where it is suspended; the iterator of its loop, which
\* is the index idx into the array filesData names (live), or, once filesData
\* names another array, the elements rest of the old array still to visit;
\* the entry of the current iteration; the pages added to mergedPdf; the
\* label it saved; and whether filesData changed since it was invoked.
IdleMerge ==
    [pc |-> "idle", live |-> FALSE, idx |-> 0, rest |-> <<>>,
     data |-> Undefined, mergedPdf |-> <<>>,
     originalBtnText |-> HtmlLabel, touched |-> FALSE]

\* What a mergePDFs call left when it ended: the slot it ran in, the alerts it
\* showed, the documents it handed to downloadPDF, the entry it was at and
\* the pages it had added.
NoMerge ==
    [slot |-> 0, alerts |-> <<>>, downloads |-> <<>>, data |-> Undefined,
     mergedPdf |-> <<>>, originalBtnText |-> HtmlLabel, touched |-> FALSE]

\* ------------------------------------------------------------------ helpers
RECURSIVE SelectPdf(_)
\* Array.from(fileList).filter(file => file.type === 'application/pdf')
SelectPdf(list) ==
    IF list = <<>> THEN <<>>
    ELSE IF FileType(Head(list)) = "application/pdf"
         THEN <<Head(list)>> \o SelectPdf(Tail(list))
         ELSE SelectPdf(Tail(list))

RECURSIVE WithoutId(_, _)
\* filesData.filter(f => f.id !== id), for an array without undefined
WithoutId(arr, id) ==
    IF arr = <<>> THEN <<>>
    ELSE IF Head(arr).id # id
         THEN <<Head(arr)>> \o WithoutId(Tail(arr), id)
         ELSE WithoutId(Tail(arr), id)

HasUndefined(arr) == \E i \in 1..Len(arr) : arr[i] = Undefined

\* arr.splice(start, 1): removes the element at index start when there is one
SpliceOut(arr, start) ==
    IF start < Len(arr)
    THEN SubSeq(arr, 1, start) \o SubSeq(arr, start + 2, Len(arr))
    ELSE arr

\* arr.splice(start, 0, item): start is clamped to the length
SpliceIn(arr, start, item) ==
    LET at == IF start < Len(arr) THEN start ELSE Len(arr)
    IN  SubSeq(arr, 1, at) \o <<item>> \o SubSeq(arr, at + 1, Len(arr))

\* filesData[i]
At(arr, i) == IF i < Len(arr) THEN arr[i + 1] ELSE Undefined

RECURSIVE RenderedItems(_)
\* renderFileList: one item per entry, in order; data.id of undefined throws,
\* which leaves the items appended so far
RenderedItems(arr) ==
    IF arr = <<>> \/ Head(arr) = Undefined THEN <<>>
    ELSE <<Head(arr).id>> \o RenderedItems(Tail(arr))

\* updateButtons, reached only when renderFileList and updateStats returned
ButtonsAfterUpdate(arr) ==
    IF HasUndefined(arr) THEN mergeBtn
    ELSE [mergeBtn EXCEPT !.disabled = Len(arr) < 2]

\* fileListElement.innerHTML = '' detaches every item, the remembered one too
Detached(el) == [el EXCEPT !.attached = FALSE]

\* Entries still to be pushed by the handleFiles calls in flight.
RECURSIVE SumLen(_)
SumLen(S) ==
    IF S = {} THEN 0
    ELSE LET b == CHOOSE x \in S : TRUE
         IN  Len(batches[b].newFiles) + SumLen(S \ {b})

Pending == SumLen(BatchSlots)

InFlight(m) == merges[m].pc \in {"create", "load", "copy", "save"}

\* What every mergePDFs in flight sees of a change of filesData to newData:
\* inPlace tells a mutation of the array object (push, splice) from the
\* assignment of a new array (filter, []).  A loop that has started holds
\* the array object it was started on.
MergesSeeing(newData, inPlace) ==
    [m \in MergeSlots |->
        IF InFlight(m)
        THEN [merges[m] EXCEPT
                !.touched = @ \/ newData # filesData,
                !.rest = IF merges[m].live /\ ~inPlace
                         THEN SubSeq(filesData, merges[m].idx + 1, Len(filesData))
                         ELSE @,
                !.idx = IF inPlace THEN @ ELSE 0,
                !.live = @ /\ inPlace]
        ELSE merges[m]]

\* What updateUI leaves of the rendered list, the remembered element and the
\* buttons once filesData is newData (renderFileList, updateStats,
\* updateButtons; an exception of renderFileList skips the other two).
UpdateUI(newData) ==
    /\ rendered' = RenderedItems(newData)
    /\ dragSrcEl' = Detached(dragSrcEl)
    /\ mergeBtn' = ButtonsAfterUpdate(newData)

\* The trace of a step that ends no mergePDFs: its name and its alert.
Shown(op, msg) ==
    /\ lastOp' = op
    /\ alert' = msg
    /\ ended' = NoMerge

\* ------------------------------------------------------------------ init
Init ==
    /\ filesData = <<>>
    /\ rendered = <<>>
    /\ dragSrcEl = NoElement
    /\ mergeBtn \in {[disabled |-> d, innerText |-> HtmlLabel] : d \in BOOLEAN}
    /\ batches = [b \in BatchSlots |-> IdleBatch]
    /\ merges = [m \in MergeSlots |-> IdleMerge]
    /\ lastOp = "DOMContentLoaded"
    /\ alert = NoAlert
    /\ ended = NoMerge
    /\ history = [b \in BatchSlots |-> NoHistory]

\* ------------------------------------------------------------------ adding
\* handleFiles(fileList) up to its first await: the drop on dropZone and the
\* change of fileInput.  b is the slot of the call, id the id its first
\* addFile draws.
HandleFiles(b, fileList, id) ==
    LET newFiles == SelectPdf(fileList) IN
    /\ UNCHANGED <<filesData, merges>>
    /\ IF newFiles = <<>> /\ fileList # <<>>
       THEN /\ Shown("handleFiles rejected", MAX_FILES_MSG)
            /\ UNCHANGED <<rendered, dragSrcEl, mergeBtn, batches>>
       ELSE IF newFiles = <<>>
       THEN /\ UpdateUI(filesData)
            /\ Shown("handleFiles done", NoAlert)
            /\ UNCHANGED batches
       ELSE /\ batches[b].pc = "idle"
            /\ batches' = [batches EXCEPT
                   ![b] = [pc |-> "addFile", newFiles |-> newFiles, id |-> id]]
            /\ Shown("handleFiles", NoAlert)
            /\ UNCHANGED <<rendered, dragSrcEl, mergeBtn>>

\* Mutant of BatchAfterAdd: the loop takes the files from the end of newFiles.
BatchAfterAddFromEnd(b, nextId) ==
    LET rest == SubSeq(batches[b].newFiles, 1, Len(batches[b].newFiles) - 1) IN
    IF rest # <<>>
    THEN [pc |-> "addFile", newFiles |-> rest, id |-> nextId]
    ELSE [pc |-> "updateUI", newFiles |-> <<>>, id |-> <<0, 0>>]

\* What handleFiles does when  await addFile(file)  returns: the next
\* addFile up to its first await (it draws the id nextId), or the step to
\* updateUI.
BatchAfterAdd(b, nextId) ==
    LET rest == Tail(batches[b].newFiles) IN
    IF rest # <<>>
    THEN [pc |-> "addFile", newFiles |-> rest, id |-> nextId]
    ELSE [pc |-> "updateUI", newFiles |-> <<>>, id |-> <<0, 0>>]

\* Mutant of AddFilePush: the entry is put in front (unshift).
AddFilePushInFront(b, nextId) ==
    LET file == Head(batches[b].newFiles)
        newData == <<Entry(batches[b].id, file)>> \o filesData
    IN
    /\ batches[b].pc = "addFile"
    /\ Decodes(file)
    /\ filesData' = newData
    /\ merges' = MergesSeeing(newData, TRUE)
    /\ batches' = [batches EXCEPT ![b] = BatchAfterAdd(b, nextId)]
    /\ Shown("addFile pushed", NoAlert)
    /\ UNCHANGED <<rendered, dragSrcEl, mergeBtn>>

\* addFile(file) from the resolution of its awaits to its end: the push.
\* (generateThumbnail catches its own errors, the push happens either way.)
AddFilePush(b, nextId) ==
    LET file == Head(batches[b].newFiles)
        newData == Append(filesData, Entry(batches[b].id, file))
    IN
    /\ batches[b].pc = "addFile"
    /\ Decodes(file)
    /\ filesData' = newData
    /\ merges' = MergesSeeing(newData, TRUE)
    /\ batches' = [batches EXCEPT ![b] = BatchAfterAdd(b, nextId)]
    /\ Shown("addFile pushed", NoAlert)
    /\ UNCHANGED <<rendered, dragSrcEl, mergeBtn>>

\* Mutant of AddFileFail: the error leaves the loop of handleFiles, the files
\* after the failed one are not taken.
AddFileFailStops(b, nextId) ==
    LET file == Head(batches[b].newFiles) IN
    /\ batches[b].pc = "addFile"
    /\ ~Decodes(file)
    /\ batches' = [batches EXCEPT
           ![b] = [pc |-> "updateUI", newFiles |-> <<>>, id |-> <<0, 0>>]]
    /\ Shown("addFile failed", LoadFailedMsg(file))
    /\ UNCHANGED <<filesData, rendered, dragSrcEl, mergeBtn, merges>>

\* Mutant of AddFileFail: the entry is pushed before the decode is awaited,
\* so a failed decode leaves it in filesData.
AddFileFailPartial(b, nextId) ==
    LET file == Head(batches[b].newFiles)
        newData == Append(filesData, Entry(batches[b].id, file))
    IN
    /\ batches[b].pc = "addFile"
    /\ ~Decodes(file)
    /\ filesData' = newData
    /\ merges' = MergesSeeing(newData, TRUE)
    /\ batches' = [batches EXCEPT ![b] = BatchAfterAdd(b, nextId)]
    /\ Shown("addFile failed", LoadFailedMsg(file))
    /\ UNCHANGED <<rendered, dragSrcEl, mergeBtn>>

\* addFile(file) when arrayBuffer() or getDocument rejects: the catch block.
AddFileFail(b, nextId) ==
    LET file == Head(batches[b].newFiles) IN
    /\ batches[b].pc = "addFile"
    /\ ~Decodes(file)
    /\ batches' = [batches EXCEPT ![b] = BatchAfterAdd(b, nextId)]
    /\ Shown("addFile failed", LoadFailedMsg(file))
    /\ UNCHANGED <<filesData, rendered, dragSrcEl, mergeBtn, merges>>

\* handleFiles after its loop: updateUI().
HandleFilesFinish(b) ==
    /\ batches[b].pc = "updateUI"
    /\ UpdateUI(filesData)
    /\ batches' = [batches EXCEPT ![b] = IdleBatch]
    /\ Shown("handleFiles done", NoAlert)
    /\ UNCHANGED <<filesData, merges>>

\* ------------------------------------------------------------------ removing
\* The 'remove-file' listener: removeFile(e.detail).  The callback of filter
\* reads f.id, a TypeError on undefined, before filesData is assigned.
RemoveFile(id) ==
    IF HasUndefined(filesData)
    THEN /\ Shown("removeFile threw", NoAlert)
         /\ UNCHANGED <<filesData, rendered, dragSrcEl, mergeBtn, batches, merges>>
    ELSE LET newData == WithoutId(filesData, id) IN
         /\ filesData' = newData
         /\ merges' = MergesSeeing(newData, FALSE)
         /\ UpdateUI(newData)
         /\ Shown("removeFile", NoAlert)
         /\ UNCHANGED batches

\* clearAllFiles
ClearAllFiles ==
    /\ filesData' = <<>>
    /\ merges' = MergesSeeing(<<>>, FALSE)
    /\ UpdateUI(<<>>)
    /\ Shown("clearAllFiles", NoAlert)
    /\ UNCHANGED batches

\* ------------------------------------------------------------------ reordering
\* The dragstart listener of the rendered item at index i.
DragStart(i) ==
    /\ i \in 0..(Len(rendered) - 1)
    /\ dragSrcEl' = [index |-> i, attached |-> TRUE]
    /\ Shown("dragstart", NoAlert)
    /\ UNCHANGED <<filesData, rendered, mergeBtn, batches, merges>>

\* Mutant of Reordered: the two elements are swapped ("Swap in array").
ReorderedSwap(arr, srcIndex, targetIndex) ==
    [i \in 1..Len(arr) |->
        IF i = srcIndex + 1 THEN At(arr, targetIndex)
        ELSE IF i = targetIndex + 1 THEN At(arr, srcIndex)
        ELSE arr[i]]

\* The two splices of the drop listener.
Reordered(arr, srcIndex, targetIndex) ==
    SpliceIn(SpliceOut(arr, srcIndex), targetIndex, At(arr, srcIndex))

\* Mutant of Drop: the list is not rendered again after the two splices.
DropNoRender(t) ==
    /\ t \in 0..(Len(rendered) - 1)
    /\ UNCHANGED batches
    /\ IF dragSrcEl = NoElement
       THEN /\ Shown("drop threw", NoAlert)
            /\ UNCHANGED <<filesData, rendered, dragSrcEl, mergeBtn, merges>>
       ELSE IF dragSrcEl.attached /\ dragSrcEl.index = t
       THEN /\ Shown("drop on itself", NoAlert)
            /\ UNCHANGED <<filesData, rendered, dragSrcEl, mergeBtn, merges>>
       ELSE LET newData == Reordered(filesData, dragSrcEl.index, t) IN
            /\ filesData' = newData
            /\ merges' = MergesSeeing(newData, TRUE)
            /\ Shown("drop", NoAlert)
            /\ UNCHANGED <<rendered, dragSrcEl, mergeBtn>>

\* The drop listener of the rendered item at index t (this).  The drop may
\* end a drag that started on an item or on anything else (a file of the
\* desktop), so dragSrcEl is whatever the last dragstart on an item left.
Drop(t) ==
    /\ t \in 0..(Len(rendered) - 1)
    /\ UNCHANGED batches
    /\ IF dragSrcEl = NoElement
       THEN \* null.getAttribute: TypeError
            /\ Shown("drop threw", NoAlert)
            /\ UNCHANGED <<filesData, rendered, dragSrcEl, mergeBtn, merges>>
       ELSE IF dragSrcEl.attached /\ dragSrcEl.index = t
       THEN \* dragSrcEl === this
            /\ Shown("drop on itself", NoAlert)
            /\ UNCHANGED <<filesData, rendered, dragSrcEl, mergeBtn, merges>>
       ELSE LET newData == Reordered(filesData, dragSrcEl.index, t) IN
            /\ filesData' = newData
            /\ merges' = MergesSeeing(newData, TRUE)
            /\ UpdateUI(newData)
            /\ Shown("drop", NoAlert)

\* ------------------------------------------------------------------ merging
\* Mutant of MergeEnds: the label of the button is not put back.
MergeEndsKeepsLabel(m, rec, alerts, downloads) ==
    /\ merges' = [merges EXCEPT ![m] = IdleMerge]
    /\ mergeBtn' = [mergeBtn EXCEPT !.disabled = FALSE]
    /\ ended' = [slot |-> m, alerts |-> alerts, downloads |-> downloads,
                 data |-> rec.data, mergedPdf |-> rec.mergedPdf,
                 originalBtnText |-> rec.originalBtnText,
                 touched |-> rec.touched]

\* The finally block of mergePDFs, which ends the call rec of slot m after
\* the alerts and the downloads given.
MergeEnds(m, rec, alerts, downloads) ==
    /\ merges' = [merges EXCEPT ![m] = IdleMerge]
    /\ mergeBtn' = [disabled |-> FALSE, innerText |-> rec.originalBtnText]
    /\ ended' = [slot |-> m, alerts |-> alerts, downloads |-> downloads,
                 data |-> rec.data, mergedPdf |-> rec.mergedPdf,
                 originalBtnText |-> rec.originalBtnText,
                 touched |-> rec.touched]

\* Mutant of MergeThrows: the pages merged so far are saved and downloaded.
MergeThrowsPartial(m, rec, cause) ==
    /\ MergeEnds(m, rec, <<MergeFailedMsg(cause)>>, <<rec.mergedPdf>>)
    /\ alert' = MergeFailedMsg(cause)
    /\ lastOp' = "mergePDFs failed"

\* The catch block of mergePDFs, then its finally block.
MergeThrows(m, rec, cause) ==
    /\ MergeEnds(m, rec, <<MergeFailedMsg(cause)>>, <<>>)
    /\ alert' = MergeFailedMsg(cause)
    /\ lastOp' = "mergePDFs failed"

\* The head of  for (const data of filesData): the iterator reads the length
\* and the element of the array object it was created on.
LoopHead(m, rec, op) ==
    LET toVisit == IF rec.live
                   THEN SubSeq(filesData, rec.idx + 1, Len(filesData))
                   ELSE rec.rest
    IN
    IF toVisit # <<>>
    THEN IF Head(toVisit) = Undefined
         THEN \* data.file of undefined: TypeError
              MergeThrows(m, [rec EXCEPT !.data = Undefined], "TypeError")
         ELSE /\ merges' = [merges EXCEPT ![m] = [rec EXCEPT
                     !.pc = "load", !.data = Head(toVisit),
                     !.idx = IF rec.live THEN @ + 1 ELSE 0,
                     !.rest = IF rec.live THEN <<>> ELSE Tail(toVisit)]]
              /\ Shown(op, NoAlert)
              /\ UNCHANGED mergeBtn
    ELSE /\ merges' = [merges EXCEPT ![m] = [rec EXCEPT
                !.pc = "save", !.data = Undefined]]
         /\ Shown(op, NoAlert)
         /\ UNCHANGED mergeBtn

\* Mutant of MergePDFs: the test of filesData.length is missing.
MergePDFsUnguarded(m, lib) ==
    /\ ~mergeBtn.disabled
    /\ ~InFlight(m)
    /\ UNCHANGED <<filesData, rendered, dragSrcEl, batches>>
    /\ LET rec == [IdleMerge EXCEPT !.originalBtnText = mergeBtn.innerText]
       IN
       IF ~lib
       THEN MergeThrows(m, rec, "PDF-LIB library not loaded")
       ELSE /\ merges' = [merges EXCEPT ![m] = [rec EXCEPT !.pc = "create"]]
            /\ mergeBtn' = [disabled |-> TRUE, innerText |-> MergingLabel]
            /\ Shown("mergePDFs", NoAlert)

\* mergePDFs up to its first await: the click on mergeBtn, which a disabled
\* button does not deliver.  m is the slot of the call; lib tells whether
\* window.PDFLib is there.
MergePDFs(m, lib) ==
    /\ ~mergeBtn.disabled
    /\ ~InFlight(m)
    /\ UNCHANGED <<filesData, rendered, dragSrcEl, batches>>
    /\ IF Len(filesData) < 2
       THEN /\ Shown("mergePDFs returned", NoAlert)
            /\ UNCHANGED <<mergeBtn, merges>>
       ELSE LET rec == [IdleMerge EXCEPT !.originalBtnText = mergeBtn.innerText]
            IN
            IF ~lib
            THEN MergeThrows(m, rec, "PDF-LIB library not loaded")
            ELSE /\ merges' = [merges EXCEPT ![m] = [rec EXCEPT !.pc = "create"]]
                 /\ mergeBtn' = [disabled |-> TRUE, innerText |-> MergingLabel]
                 /\ Shown("mergePDFs", NoAlert)

\* PDFDocument.create() resolved: the loop starts on the array filesData
\* names now.
MergeCreated(m) ==
    /\ merges[m].pc = "create"
    /\ LoopHead(m, [merges[m] EXCEPT !.live = TRUE], "mergePDFs created")
    /\ UNCHANGED <<filesData, rendered, dragSrcEl, batches>>

\* data.file.arrayBuffer() and PDFDocument.load resolved (ok), or one rejected.
MergeLoad(m, ok) ==
    /\ merges[m].pc = "load"
    /\ IF ok
       THEN /\ merges' = [merges EXCEPT ![m].pc = "copy"]
            /\ Shown("mergePDFs loaded", NoAlert)
            /\ UNCHANGED mergeBtn
       ELSE MergeThrows(m, merges[m], "load")
    /\ UNCHANGED <<filesData, rendered, dragSrcEl, batches>>

\* Mutant of MergeCopy: the copied pages are put in front of mergedPdf.
MergeCopyInFront(m, ok) ==
    /\ merges[m].pc = "copy"
    /\ IF ok
       THEN LoopHead(m, [merges[m] EXCEPT
                   !.mergedPdf = Pages(merges[m].data.file) \o @],
                 "mergePDFs copied")
       ELSE MergeThrows(m, merges[m], "copyPages")
    /\ UNCHANGED <<filesData, rendered, dragSrcEl, batches>>

\* mergedPdf.copyPages resolved (ok: the pages are added, the loop goes on)
\* or rejected.
MergeCopy(m, ok) ==
    /\ merges[m].pc = "copy"
    /\ IF ok
       THEN LoopHead(m, [merges[m] EXCEPT
                   !.mergedPdf = @ \o Pages(merges[m].data.file)],
                 "mergePDFs copied")
       ELSE MergeThrows(m, merges[m], "copyPages")
    /\ UNCHANGED <<filesData, rendered, dragSrcEl, batches>>

\* Mutant of MergeSave: a delivered merge empties the list (filesData = []).
MergeSaveClearing(m, ok) ==
    /\ merges[m].pc = "save"
    /\ IF ok
       THEN /\ MergeEnds(m, merges[m], <<>>, <<merges[m].mergedPdf>>)
            /\ alert' = NoAlert
            /\ lastOp' = "mergePDFs delivered"
            /\ filesData' = <<>>
       ELSE /\ MergeThrows(m, merges[m], "save")
            /\ UNCHANGED filesData
    /\ UNCHANGED <<rendered, dragSrcEl, batches>>

\* mergedPdf.save() resolved (ok: downloadPDF, then the finally block) or
\* rejected.
MergeSave(m, ok) ==
    /\ merges[m].pc = "save"
    /\ IF ok
       THEN /\ MergeEnds(m, merges[m], <<>>, <<merges[m].mergedPdf>>)
            /\ alert' = NoAlert
            /\ lastOp' = "mergePDFs delivered"
       ELSE MergeThrows(m, merges[m], "save")
    /\ UNCHANGED <<filesData, rendered, dragSrcEl, batches>>

\* ------------------------------------------------------------------ next
\* A slot is taken in order: the lowest one that is free.
FreeBatchSlot(b) ==
    /\ batches[b].pc = "idle"
    /\ \A c \in BatchSlots : c < b => batches[c].pc # "idle"

FreeMergeSlot(m) ==
    /\ ~InFlight(m)
    /\ \A c \in MergeSlots : c < m => InFlight(c)

\* The handlers of the list, with at most maxLen entries (pushes in flight
\* included), handleFiles calls in the slots given, FileLists of at most
\* maxBatch files and ids out of ids.
ListStep(slots, maxBatch, ids, maxLen) ==
    \/ \E b \in slots, fileList \in FileListsUpTo(maxBatch), id \in ids :
         /\ SelectPdf(fileList) # <<>> => FreeBatchSlot(b)
         /\ Len(filesData) + Pending + Len(SelectPdf(fileList)) <= maxLen
         /\ HandleFiles(b, fileList, id)
    \/ \E b \in slots, id \in ids : AddFilePush(b, id)
    \/ \E b \in slots, id \in ids : AddFileFail(b, id)
    \/ \E b \in slots : HandleFilesFinish(b)
    \/ \E id \in ids : RemoveFile(id)
    \/ ClearAllFiles
    \/ \E i \in 0..(maxLen - 1) : DragStart(i)
    \/ \E t \in 0..(maxLen - 1) : Drop(t) /\ Len(filesData') + Pending <= maxLen

\* The steps of mergePDFs.
MergeStep ==
    \/ \E m \in MergeSlots, lib \in BOOLEAN : FreeMergeSlot(m) /\ MergePDFs(m, lib)
    \/ \E m \in MergeSlots : MergeCreated(m)
    \/ \E m \in MergeSlots, ok \in BOOLEAN : MergeLoad(m, ok)
    \/ \E m \in MergeSlots, ok \in BOOLEAN : MergeCopy(m, ok)
    \/ \E m \in MergeSlots, ok \in BOOLEAN : MergeSave(m, ok)

\* The whole program: the list within the smaller bounds, and mergePDFs.
\* Nothing is recorded of the past of the handleFiles calls.
Next ==
    \/ ListStep(1..MergeBatches, MergeMaxBatch, MergeIds, MergeMaxLen)
         /\ UNCHANGED history
    \/ MergeStep /\ UNCHANGED history

Spec == Init /\ [][Next]_vars

\* The resumptions of the mergePDFs calls in flight: the promises of pdf-lib
\* and of File.arrayBuffer settle.
MergeResumes ==
    /\ \E m \in MergeSlots :
          \/ MergeCreated(m)
          \/ \E ok \in BOOLEAN : MergeLoad(m, ok) \/ MergeCopy(m, ok) \/ MergeSave(m, ok)
    /\ UNCHANGED history

\* The whole program when every promise a mergePDFs call awaits settles in
\* the end: a call in flight is resumed.
SpecFair == Spec /\ WF_vars(MergeResumes)

\* The list alone, within the larger bounds: no click on mergeBtn.
NextList == ListStep(BatchSlots, MaxBatch, Ids, MaxLen) /\ UNCHANGED history

SpecList == Init /\ [][NextList]_vars

\* What a step of the list leaves of the past of the handleFiles call of
\* slot b: nothing when no call is in flight there or when one starts; the
\* entry its addFile pushed in this step is appended to pushed; a remove, a
\* reorder or a clear empties pushed; a clear that runs while its addFile is
\* in flight sets cleared, the next addFile of the call starts with cleared
\* reset.
Recorded(b) ==
    LET was == batches[b]
        advanced == was.pc = "addFile" /\ batches'[b].newFiles # was.newFiles
    IN
    IF batches'[b].pc = "idle" \/ was.pc = "idle" THEN NoHistory
    ELSE [cleared |->
             IF advanced THEN FALSE
             ELSE history[b].cleared
                    \/ (lastOp' = "clearAllFiles" /\ was.pc = "addFile"),
          pushed |->
             IF lastOp' \in {"removeFile", "clearAllFiles", "drop"} THEN <<>>
             ELSE IF advanced /\ lastOp' = "addFile pushed"
             THEN Append(history[b].pushed, Entry(was.id, Head(was.newFiles)))
             ELSE history[b].pushed]

\* The list alone, with the past of the handleFiles calls recorded.
NextBatch ==
    /\ ListStep(BatchSlots, MaxBatch, MergeIds, MaxLen)
    /\ history' = [b \in BatchSlots |-> Recorded(b)]

SpecBatch == Init /\ [][NextBatch]_vars

\* ------------------------------------------------------------------ claims
\* How often e occurs in arr.
Count(arr, e) == Cardinality({i \in 1..Len(arr) : arr[i] = e})

\* a and b hold the same entries, each as often in a as in b.
SameEntries(a, b) ==
    \A i \in 1..Len(a), j \in 1..Len(b) :
        /\ Count(a, a[i]) = Count(b, a[i])
        /\ Count(a, b[j]) = Count(b, b[j])

\* arr without its element at position pos (from 1).
Without(arr, pos) == [i \in 1..(Len(arr) - 1) |-> IF i < pos THEN arr[i] ELSE arr[i + 1]]

\* arr without the entries that have the id given, the others in their order.
Others(arr, id) == SelectSeq(arr, LAMBDA e : e = Undefined \/ e.id # id)

\* The files an add rejects.
RejectedFiles == {f \in Files : FileType(f) # "application/pdf" \/ ~Decodes(f)}

\* C1: in every reachable state no two entries of filesData have the same id.
C1_UniqueIds ==
    \A i, j \in 1..Len(filesData) :
        (i # j /\ filesData[i] # Undefined /\ filesData[j] # Undefined)
            => filesData[i].id # filesData[j].id

\* C4: every drop leaves in filesData exactly the entries it held before the
\* drop, only their order may differ.
C4_DropKeepsEntries ==
    [][(\E t \in 0..(MaxLen - 1) : Drop(t)) => SameEntries(filesData, filesData')]_vars

C7_RejectedAddKeepsList ==
    /\ [](\A i \in 1..Len(filesData) : filesData[i].file \notin RejectedFiles)
    /\ [][(alert' = MAX_FILES_MSG \/ \E f \in Files : alert' = LoadFailedMsg(f))
            => filesData' = filesData]_vars

\* C7 witness: the decode of bad.pdf has just failed while two entries were
\* in filesData.
C7_Witness ==
    /\ lastOp = "addFile failed"
    /\ alert = LoadFailedMsg("bad.pdf")
    /\ Len(filesData) = 2

\* C10: removeFile(id) raises no error and leaves exactly the entries whose
\* id is not id, in their order.
C10_RemoveFilters ==
    [][\A id \in Ids :
          RemoveFile(id) => /\ lastOp' = "removeFile"
                            /\ filesData' = Others(filesData, id)]_vars

RECURSIVE PagesOf(_)
\* The pages of the entries of arr, one document after the other.
PagesOf(arr) ==
    IF arr = <<>> THEN <<>> ELSE Pages(Head(arr).file) \o PagesOf(Tail(arr))

\* The pages the mergePDFs call of slot m delivers if every step left to it
\* succeeds: those added, those of the current entry, those of the elements
\* its iterator has yet to visit.
Plan(m) ==
    LET r == merges[m] IN
    IF r.pc = "create" THEN PagesOf(filesData)
    ELSE r.mergedPdf
         \o (IF r.pc \in {"load", "copy"} THEN Pages(r.data.file) ELSE <<>>)
         \o PagesOf(IF r.live
                    THEN SubSeq(filesData, r.idx + 1, Len(filesData))
                    ELSE r.rest)

\* C2: a step taken while a mergePDFs call is suspended (an add completion, a
\* remove, a drop, a clear) does not change which entries that call copies
\* into the merged document, nor their order.
C2_MergeKeepsItsEntries ==
    [][\A m \in MergeSlots :
          (InFlight(m) /\ merges'[m].pc = merges[m].pc) => Plan(m)' = Plan(m)]_vars

\* C3: while a mergePDFs call is in flight the merge button is disabled.
C3_DisabledWhileMerging ==
    \A m \in MergeSlots : InFlight(m) => mergeBtn.disabled

\* C6: when filesData did not change during the merge, the entries are
\* loaded and copied one after the other in the order of filesData (the
\* entry in hand is the k-th, the pages added are those of the k - 1 entries
\* before it), and a
\* successful mergePDFs hands to downloadPDF one document, whose pages are
\* those of the entries of filesData in that order.
C6_MergeConcatenatesInOrder ==
    /\ (ended.downloads # <<>> /\ ~ended.touched)
          => ended.downloads = <<PagesOf(filesData)>>
    /\ \A m \in MergeSlots :
          LET r == merges[m] IN
          (InFlight(m) /\ ~r.touched) =>
              /\ r.pc \in {"load", "copy"} =>
                    LET k == IF r.live THEN r.idx
                             ELSE Len(filesData) - Len(r.rest)
                    IN
                    /\ k \in 1..Len(filesData)
                    /\ r.data = filesData[k]
                    /\ r.mergedPdf = PagesOf(SubSeq(filesData, 1, k - 1))
              /\ r.pc = "save" => r.mergedPdf = PagesOf(filesData)

\* C6 witness: an undisturbed merge of [a.pdf, b.pdf] has delivered the two
\* pages of a.pdf followed by the three pages of b.pdf.
C6_Witness ==
    /\ lastOp = "mergePDFs delivered"
    /\ ~ended.touched
    /\ Len(filesData) = 2
    /\ filesData[1].file = "a.pdf"
    /\ filesData[2].file = "b.pdf"
    /\ ended.downloads = <<<<"a1", "a2", "b1", "b2", "b3">>>>

\* C8: a mergePDFs call in which a load or a copy fails ends with that step:
\* its slot is free (no later entry is processed, nothing is tried again), it
\* handed nothing to downloadPDF and it showed one alert.
C8_FailedMergeAborts ==
    /\ [](ended.alerts # <<>> =>
            /\ Len(ended.alerts) = 1
            /\ alert = ended.alerts[1]
            /\ ended.downloads = <<>>
            /\ ~InFlight(ended.slot))
    /\ [][\A m \in MergeSlots :
            (MergeLoad(m, FALSE) \/ MergeCopy(m, FALSE))
                => /\ ended'.slot = m
                   /\ ended'.alerts # <<>>
                   /\ ended'.downloads = <<>>]_vars

\* C8 witness: the load of the second entry, b.pdf, has failed after the
\* pages of the first, a.pdf, were added.
C8_Witness ==
    /\ lastOp = "mergePDFs failed"
    /\ alert = MergeFailedMsg("load")
    /\ ended.data.file = "b.pdf"
    /\ ended.mergedPdf = Pages("a.pdf")
    /\ ended.downloads = <<>>

\* What the claim C9 expects mergePDFs to signal.
InsufficientFilesMsg == <<"InsufficientFiles", "">>

UpdateUIRan ==
    /\ lastOp \in {"handleFiles done", "removeFile", "clearAllFiles", "drop"}
    /\ ~HasUndefined(filesData)

\* The merge action is disabled when there are fewer than 2 entries.
MergeGuarded == Len(filesData) < 2 => mergeBtn.disabled

\* C11: updateUI leaves the merge button disabled when filesData has fewer
\* than 2 entries, and no later step (the end of a merge with removes or
\* clears interleaved included) leaves it enabled with fewer than 2 entries.
C11_DisabledBelowTwo ==
    [][(UpdateUIRan' => MergeGuarded') /\ (MergeGuarded => MergeGuarded')]_vars

\* What the claim C12 expects the alert of a failed merge to carry: the id
\* of the failing entry and the cause.
MergeErrorMsg(id, cause) == <<"An error occurred while merging PDFs", id, cause>>

\* C12: the alert of a mergePDFs call that failed at an entry carries the id
\* of that entry and the cause.
C12_ErrorNamesEntry ==
    (ended.alerts # <<>> /\ ended.data # Undefined)
        => \E cause \in {"load", "copyPages"} :
              ended.alerts = <<MergeErrorMsg(ended.data.id, cause)>>

\* C13: no step of mergePDFs (its start, the start of its loop, a load, a
\* copy, the save, its end by success or by failure) changes filesData.
C13_MergeLeavesList ==
    [][MergeStep => filesData' = filesData]_vars

\* C13 witness: a merge of two entries has delivered its document and the
\* two entries are still in filesData.
C13_Witness ==
    /\ ended.downloads # <<>>
    /\ Len(ended.mergedPdf) > 0
    /\ Len(filesData) = 2
    /\ ~HasUndefined(filesData)

\* The handleFiles call of slot b has its addFile end in the step.
AddEnds(b) ==
    /\ batches[b].pc = "addFile"
    /\ batches'[b].newFiles # batches[b].newFiles

\* C14: the step in which an add completes appends its entry at the end of
\* filesData and leaves the entries before it in place, whatever other adds
\* are in flight; the call of handleFiles and a failing add place nothing.
\* The order of the entries is therefore the order in which the adds complete.
C14_AppendsOnCompletion ==
    [][/\ lastOp' = "addFile pushed" =>
            \E b \in BatchSlots :
                /\ AddEnds(b)
                /\ filesData' = filesData
                       \o <<Entry(batches[b].id, Head(batches[b].newFiles))>>
       /\ lastOp' \in {"handleFiles", "addFile failed"} =>
            filesData' = filesData]_vars

\* C14 witness: two handleFiles calls were in flight, that of slot 2 has just
\* had its add complete while that of slot 1 is still awaiting, and the
\* entry is the last of filesData.
C14_Witness ==
    /\ lastOp = "addFile pushed"
    /\ batches[1].pc = "addFile"
    /\ batches[1].newFiles = <<"a.pdf">>
    /\ batches[2].pc = "updateUI"
    /\ Len(filesData) = 2
    /\ filesData[2].file = "b.pdf"

\* The data-id values a rendering of arr in its order has.
IdsOf(arr) == [i \in 1..Len(arr) |-> arr[i].id]

\* C15: when no handleFiles call is in flight, the data-id values of the
\* rendered items are the ids of filesData, in its order.
C15_RenderedIsList ==
    (\A b \in BatchSlots : batches[b].pc = "idle") => rendered = IdsOf(filesData)

\* C16: the rendered items are a prefix of filesData: the item of data-index
\* i has the id of the entry at index i.
C16_RenderedIsPrefix ==
    /\ Len(rendered) <= Len(filesData)
    /\ \A i \in 1..Len(rendered) :
          /\ filesData[i] # Undefined
          /\ filesData[i].id = rendered[i]

\* C16 witness: an add has appended a third entry that is not rendered yet,
\* the two rendered items are those of the first two entries.
C16_Witness ==
    /\ lastOp = "addFile pushed"
    /\ Len(rendered) = 2
    /\ Len(filesData) = 3
    /\ filesData[1].id # filesData[2].id

\* C17: an add that was in flight when clearAllFiles ran does not push its
\* entry into filesData.
C17_ClearedAddsStayOut ==
    [][\A b \in BatchSlots :
          (AddEnds(b) /\ lastOp' = "addFile pushed") => ~history[b].cleared]_vars

RECURSIVE IsSubseq(_, _)
\* The elements of sub occur in arr, in the order of sub.
IsSubseq(sub, arr) ==
    IF sub = <<>> THEN TRUE
    ELSE IF arr = <<>> THEN FALSE
    ELSE IF Head(sub) = Head(arr) THEN IsSubseq(Tail(sub), Tail(arr))
    ELSE IsSubseq(sub, Tail(arr))

\* C18: a handleFiles call has one addFile in flight at a time, for the first
\* of the files it has yet to take, and takes the next only when that one has
\* pushed or failed; the entries it has pushed since the last remove, reorder
\* or clear are in filesData in the order it pushed them.
C18_BatchInOrder ==
    /\ [](\A b \in BatchSlots :
            /\ batches[b].pc = "addFile" <=> batches[b].newFiles # <<>>
            /\ IsSubseq(history[b].pushed, filesData))
    /\ [][\A b \in BatchSlots :
            (batches[b].pc = "addFile" /\ batches'[b] # batches[b]) =>
                /\ lastOp' \in {"addFile pushed", "addFile failed"}
                /\ batches'[b].newFiles = Tail(batches[b].newFiles)
                /\ lastOp' = "addFile pushed" =>
                      /\ filesData'[Len(filesData')].file = Head(batches[b].newFiles)
                      /\ history'[b].pushed # <<>>]_vars

\* C18 witness: the call of slot 1, handed [b.pdf, a.pdf], has pushed both
\* while the call of slot 2 pushed an entry in between.
C18_Witness ==
    /\ batches[1].pc = "updateUI"
    /\ Len(history[1].pushed) = 2
    /\ history[1].pushed[1].file = "b.pdf"
    /\ history[1].pushed[2].file = "a.pdf"
    /\ Len(filesData) = 3
    /\ filesData[1] = history[1].pushed[1]
    /\ filesData[3] = history[1].pushed[2]
    /\ Len(history[2].pushed) = 1

\* C19: the step in which the decode of a file fails shows the one alert of
\* that file, leaves filesData as it was and moves the handleFiles call to
\* the next of its files (to updateUI after the last): the file is not tried
\* again and the later files are not skipped.
C19_FailureKeepsBatchGoing ==
    [][\A b \in BatchSlots :
          (AddEnds(b) /\ lastOp' = "addFile failed") =>
              LET rest == Tail(batches[b].newFiles) IN
              /\ alert' = LoadFailedMsg(Head(batches[b].newFiles))
              /\ filesData' = filesData
              /\ batches'[b].newFiles = rest
              /\ batches'[b].pc = IF rest = <<>> THEN "updateUI" ELSE "addFile"]_vars

\* C19 witness: the decode of bad.pdf, first of a batch, has failed and the
\* add of the second file of the batch, a.pdf, is in flight.
C19_Witness ==
    /\ lastOp = "addFile failed"
    /\ alert = LoadFailedMsg("bad.pdf")
    /\ \E b \in BatchSlots :
          /\ batches[b].pc = "addFile"
          /\ batches[b].newFiles = <<"a.pdf">>

\* C20: when every promise it awaits settles, a mergePDFs call in flight
\* ends; and a call that has ended, by success or by failure, has left on the
\* button the label it found and has either handed one document to
\* downloadPDF or shown one alert, not both.
C20_MergeEndsRestored ==
    /\ \A m \in MergeSlots : InFlight(m) ~> (ended.slot = m)
    /\ [](ended # NoMerge =>
            /\ mergeBtn.innerText = ended.originalBtnText
            /\ Len(ended.alerts) + Len(ended.downloads) = 1)

\* C20 witness: a merge during which filesData changed has ended with the
\* failure of its save, and the button has its label of the page again.
C20_Witness ==
    /\ ended.slot = 1
    /\ ended.alerts = <<MergeFailedMsg("save")>>
    /\ ended.touched
    /\ mergeBtn.innerText = HtmlLabel

====
